---- MODULE Spec2Model ----
(***************************************************************************)
(* Model of the seller-apis stock/price synchronisation scripts:           *)
(*   src/seller.py  - Ozon entry point and the shared pure helpers         *)
(*   src/market.py  - Yandex Market entry point (FBS and DBS campaigns)    *)
(*                                                                         *)
(* Python strings that the code inspects character by character (prices,   *)
(* quantities) are sequences of one-character strings; offer ids, which    *)
(* the code only compares for equality, are TLA+ strings.                  *)
(*                                                                         *)
(* Four specifications share the variables:                               *)
(*   Spec      - one run of an entry point (seller.main or market.main)    *)
(*   FairSpec  - Spec with weak fairness of the run's steps                *)
(*   SpecRecon - create_stocks / create_prices called on a caller's list   *)
(*   SpecPure  - price_conversion and divide applied to bounded inputs     *)
(***************************************************************************)
EXTENDS Integers, Sequences, FiniteSets, TLC

\* ------------------------------------------------------------------------
\* Bounds of the model
\* ------------------------------------------------------------------------
MaxRecords == 2      \* rows of the inventory spreadsheet
MaxCatalog == 3      \* offer ids in one marketplace catalog
MaxStr == 4          \* characters of an enumerated price string
MaxLen == 5          \* items of a list handed to divide
MaxN == 3            \* chunk size handed to divide
MaxClock == 1        \* ticks of the wall clock between two calls
PageLimit == 1       \* items per catalog page (limit 1000 / 200 in the code)
StockBatch == 1      \* items per stock upload (100 / 2000 in the code)
PriceBatch == 2      \* items per price upload (900 / 500 in the code)
MaxCalls == 2        \* successive reconciliation calls on one list

\* ------------------------------------------------------------------------
\* Generic helpers
\* ------------------------------------------------------------------------
Min(a, b) == IF a < b THEN a ELSE b

SeqsUpTo(S, n) == UNION {[1..k -> S] : k \in 0..n}

Range(s) == {s[i] : i \in 1..Len(s)}

\* Python slice lst[i : j] with 0 <= i, clipped at the end of the list
Slice(lst, i, j) == SubSeq(lst, i + 1, Min(j, Len(lst)))

\* Python list.remove(x): drops the first occurrence of x
RECURSIVE Remove(_, _)
Remove(lst, x) ==
    IF lst = <<>> THEN <<>>
    ELSE IF Head(lst) = x THEN Tail(lst)
    ELSE <<Head(lst)>> \o Remove(Tail(lst), x)

RECURSIVE Flatten(_)
Flatten(chunks) ==
    IF chunks = <<>> THEN <<>> ELSE Head(chunks) \o Flatten(Tail(chunks))

\* ------------------------------------------------------------------------
\* Characters and string parsing
\* ------------------------------------------------------------------------
Digits == {"0", "1", "2", "3", "4", "5", "6", "7", "8", "9"}

DigitVal(c) ==
    CASE c = "0" -> 0 [] c = "1" -> 1 [] c = "2" -> 2 [] c = "3" -> 3
      [] c = "4" -> 4 [] c = "5" -> 5 [] c = "6" -> 6 [] c = "7" -> 7
      [] c = "8" -> 8 [] c = "9" -> 9

\* str.split(".")[0]: the part of the string before its first "."
RECURSIVE SplitFirst(_)
SplitFirst(s) ==
    IF s = <<>> THEN <<>>
    ELSE IF Head(s) = "." THEN <<>>
    ELSE <<Head(s)>> \o SplitFirst(Tail(s))

\* re.sub("[^0-9]", "", s): every character outside 0-9 is deleted
RECURSIVE ReSubNonDigits(_)
ReSubNonDigits(s) ==
    IF s = <<>> THEN <<>>
    ELSE IF Head(s) \in Digits THEN <<Head(s)>> \o ReSubNonDigits(Tail(s))
    ELSE ReSubNonDigits(Tail(s))

price_conversion_keep_fraction(price) == ReSubNonDigits(price)

price_conversion(price) == ReSubNonDigits(SplitFirst(price))

\* int(s) for a string over the model's alphabet (digits, ">", "'", ".",
\* " " and letters): a non-empty run of digits parses, anything else raises
\* ValueError.
IsNumeric(s) == s # <<>> /\ \A i \in 1..Len(s) : s[i] \in Digits

RECURSIVE IntOf(_)
IntOf(s) ==
    IF s = <<>> THEN 0
    ELSE 10 * IntOf(SubSeq(s, 1, Len(s) - 1)) + DigitVal(s[Len(s)])

\* for i in range(0, len(lst), n): yield lst[i : i + n]
RECURSIVE divide_from(_, _, _)
divide_from(lst, n, i) ==
    IF i >= Len(lst) THEN <<>>
    ELSE <<Slice(lst, i, i + n)>> \o divide_from(lst, n, i + n)

divide_overlapping(lst, n) ==
    [k \in 1..Len(divide_from(lst, n, 0)) |->
        Slice(lst, (k - 1) * n, k * n + 1)]

divide(lst, n) == divide_from(lst, n, 0)

\* ------------------------------------------------------------------------
\* Reconciliation (create_stocks, create_prices)
\* An inventory record is [code, quantity, price]: the columns the code
\* reads from a spreadsheet row.
\* ------------------------------------------------------------------------
\* outcome of the quantity mapping: a count, or int() raising ValueError
Stock(n) == [raised |-> FALSE, stock |-> n]

ValueError == [raised |-> TRUE, stock |-> 0]

\* seller.py: the quantity column mapped to a stock count
seller_stock_of_plain(quantity) ==
    IF quantity = <<">", "1", "0">> THEN Stock(100)
    ELSE IF IsNumeric(quantity) THEN Stock(IntOf(quantity))
    ELSE ValueError

seller_stock_of(quantity) ==
    IF quantity = <<">", "1", "0">> THEN Stock(100)
    ELSE IF quantity = <<"1">> THEN Stock(0)
    ELSE IF IsNumeric(quantity) THEN Stock(IntOf(quantity))
    ELSE ValueError

\* seller.py: offer_ids.remove(code) after a match
seller_remove_matched_keep(offer_ids, code) == offer_ids

seller_remove_matched(offer_ids, code) == Remove(offer_ids, code)

\* seller.py: first loop of create_stocks over watch_remnants[i..]
\* st = [stocks, offer_ids, err]
RECURSIVE seller_match_loop(_, _, _)
seller_match_loop(watch_remnants, i, st) ==
    IF i > Len(watch_remnants) THEN st
    ELSE LET watch == watch_remnants[i] IN
         IF watch.code \in Range(st.offer_ids)
         THEN LET res == seller_stock_of(watch.quantity)
                  stock == res.stock IN
              IF res.raised
              THEN [st EXCEPT !.err = TRUE]
              ELSE seller_match_loop(watch_remnants, i + 1,
                     [stocks |-> Append(st.stocks,
                                   [offer_id |-> watch.code, stock |-> stock]),
                      offer_ids |-> seller_remove_matched(st.offer_ids, watch.code),
                      err |-> FALSE])
         ELSE seller_match_loop(watch_remnants, i + 1, st)

\* seller.py create_stocks: returns [stocks, offer_ids, err] where offer_ids
\* is the caller's list as the call leaves it and err tells that int()
\* raised (no list is returned then).
seller_create_stocks(watch_remnants, offer_ids) ==
    LET st == seller_match_loop(watch_remnants, 1,
                 [stocks |-> <<>>, offer_ids |-> offer_ids, err |-> FALSE])
    IN IF st.err THEN [st EXCEPT !.stocks = <<>>]
       ELSE [st EXCEPT !.stocks = st.stocks \o
                [k \in 1..Len(st.offer_ids) |->
                    [offer_id |-> st.offer_ids[k], stock |-> 0]]]

\* seller.py create_prices
RECURSIVE seller_create_prices_from(_, _, _)
seller_create_prices_from(watch_remnants, offer_ids, i) ==
    IF i > Len(watch_remnants) THEN <<>>
    ELSE LET watch == watch_remnants[i] IN
         (IF watch.code \in Range(offer_ids)
          THEN <<[auto_action_enabled |-> "UNKNOWN",
                  currency_code |-> "RUB",
                  offer_id |-> watch.code,
                  old_price |-> "0",
                  price |-> price_conversion(watch.price)]>>
          ELSE <<>>)
         \o seller_create_prices_from(watch_remnants, offer_ids, i + 1)

seller_create_prices(watch_remnants, offer_ids) ==
    seller_create_prices_from(watch_remnants, offer_ids, 1)

\* market.py: the quantity column mapped to a stock count
market_stock_of_plain(quantity) ==
    IF quantity = <<">", "1", "0">> THEN Stock(100)
    ELSE IF IsNumeric(quantity) THEN Stock(IntOf(quantity))
    ELSE ValueError

market_stock_of(quantity) ==
    IF quantity = <<">", "1", "0">> THEN Stock(100)
    ELSE IF quantity = <<"1">> THEN Stock(0)
    ELSE IF IsNumeric(quantity) THEN Stock(IntOf(quantity))
    ELSE ValueError

market_remove_matched_keep(offer_ids, code) == offer_ids

market_remove_matched(offer_ids, code) == Remove(offer_ids, code)

\* market.py: one entry of the stock list
market_stock_entry(sku, warehouse_id, count, date) ==
    [sku |-> sku,
     warehouseId |-> warehouse_id,
     items |-> <<[count |-> count, type |-> "FIT", updatedAt |-> date]>>]

RECURSIVE market_match_loop(_, _, _, _, _)
market_match_loop(watch_remnants, i, st, warehouse_id, date) ==
    IF i > Len(watch_remnants) THEN st
    ELSE LET watch == watch_remnants[i] IN
         IF watch.code \in Range(st.offer_ids)
         THEN LET res == market_stock_of(watch.quantity)
                  stock == res.stock IN
              IF res.raised
              THEN [st EXCEPT !.err = TRUE]
              ELSE market_match_loop(watch_remnants, i + 1,
                     [stocks |-> Append(st.stocks,
                         market_stock_entry(watch.code, warehouse_id, stock, date)),
                      offer_ids |-> market_remove_matched(st.offer_ids, watch.code),
                      err |-> FALSE],
                     warehouse_id, date)
         ELSE market_match_loop(watch_remnants, i + 1, st, warehouse_id, date)

\* market.py create_stocks; date is the clock reading taken at entry
market_create_stocks(watch_remnants, offer_ids, warehouse_id, date) ==
    LET st == market_match_loop(watch_remnants, 1,
                 [stocks |-> <<>>, offer_ids |-> offer_ids, err |-> FALSE],
                 warehouse_id, date)
    IN IF st.err THEN [st EXCEPT !.stocks = <<>>]
       ELSE [st EXCEPT !.stocks = st.stocks \o
                [k \in 1..Len(st.offer_ids) |->
                    market_stock_entry(st.offer_ids[k], warehouse_id, 0, date)]]

\* market.py create_prices: int(price_conversion(...)) raises on a price
\* without digits; result is [prices, err]
RECURSIVE market_create_prices_from(_, _, _, _)
market_create_prices_from(watch_remnants, offer_ids, i, acc) ==
    IF i > Len(watch_remnants) THEN [prices |-> acc, err |-> FALSE]
    ELSE LET watch == watch_remnants[i] IN
         IF watch.code \in Range(offer_ids)
         THEN LET digits == price_conversion(watch.price) IN
              IF ~IsNumeric(digits) THEN [prices |-> <<>>, err |-> TRUE]
              ELSE market_create_prices_from(watch_remnants, offer_ids, i + 1,
                     Append(acc, [id |-> watch.code,
                                  price |-> [value |-> IntOf(digits),
                                             currencyId |-> "RUR"]]))
         ELSE market_create_prices_from(watch_remnants, offer_ids, i + 1, acc)

market_create_prices(watch_remnants, offer_ids) ==
    market_create_prices_from(watch_remnants, offer_ids, 1, <<>>)

\* ------------------------------------------------------------------------
\* State
\* ------------------------------------------------------------------------
VARIABLES
    entry,           \* "seller" (Ozon shapes) or "market" (Yandex shapes)
    pc,              \* position of the running code
    inventory,       \* rows of the spreadsheet the inventory site serves
    watch_remnants,  \* rows held by the program
    catalog,         \* campaign -> offer ids the marketplace holds
    campaign,        \* account the run is working on
    page,            \* cursor of get_offer_ids (last_id / page token)
    product_list,    \* items accumulated by get_offer_ids
    offer_ids,       \* the caller's offer-id list
    stocks,          \* result of create_stocks
    prices,          \* result of create_prices
    todo,            \* batches of list(divide(...)) not yet uploaded
    requests,        \* requests made to the marketplace, in order
    exc,             \* exception in flight or handled ("none" if none)
    outcome,         \* "running", "ok", "handled" or "uncaught"
    printed,         \* messages written to standard output
    coroutines,      \* coroutine objects created and never awaited
    utcnow,          \* wall clock, in seconds
    calls,           \* reconciliation calls made so far, with their results
    arg,             \* input of the pure function under test
    result           \* its return value

vars == <<entry, pc, inventory, watch_remnants, catalog, campaign, page,
          product_list, offer_ids, stocks, prices, todo, requests, exc,
          outcome, printed, coroutines, utcnow, calls, arg, result>>

runVars == <<inventory, catalog, campaign, page, product_list, stocks, prices,
             todo, requests, exc, outcome, printed, coroutines>>

\* values of the variables a specification does not use
RunIdle ==
    /\ inventory = <<>> /\ catalog = <<>> /\ campaign = "none" /\ page = 0
    /\ product_list = <<>> /\ stocks = <<>> /\ prices = <<>> /\ todo = <<>>
    /\ requests = <<>> /\ exc = "none" /\ outcome = "running"
    /\ printed = <<>> /\ coroutines = <<>>

\* ------------------------------------------------------------------------
\* SpecPure: price_conversion and divide on bounded inputs
\* ------------------------------------------------------------------------
PriceChars == {"1", "9", "'", ".", "a"}

\* the docstring's and the specification's sample prices ("rub" stands for
\* the Cyrillic currency suffix: three non-digit letters)
Price5990 == <<"5", "'", "9", "9", "0", ".", "0", "0", " ", "r", "u", "b", ".">>

Price199 == <<"1", "9", "9", ".", "9", "9">>

PriceAbc == <<"a", "b", "c">>

PriceInputs == SeqsUpTo(PriceChars, MaxStr) \cup {Price5990, Price199, PriceAbc}

List2500 == [i \in 1..2500 |-> i]

DivideInputs ==
    {[fn |-> "divide", lst |-> l, n |-> n] :
        l \in SeqsUpTo({"a", "b"}, MaxLen), n \in 1..MaxN}
    \cup {[fn |-> "divide", lst |-> List2500, n |-> 1000]}

InitPure ==
    /\ arg \in {[fn |-> "price_conversion", price |-> s] : s \in PriceInputs}
               \cup DivideInputs
    /\ pc = "call"
    /\ result = <<>>
    /\ entry = "seller" /\ watch_remnants = <<>> /\ offer_ids = <<>>
    /\ utcnow = 0 /\ calls = <<>>
    /\ RunIdle

CallPriceConversion ==
    /\ pc = "call" /\ arg.fn = "price_conversion"
    /\ result' = price_conversion(arg.price)
    /\ pc' = "returned"
    /\ UNCHANGED <<entry, watch_remnants, offer_ids, utcnow, calls, arg>>
    /\ UNCHANGED runVars

\* list(divide(lst, n)): the generator run to exhaustion
CallDivide ==
    /\ pc = "call" /\ arg.fn = "divide"
    /\ result' = divide(arg.lst, arg.n)
    /\ pc' = "returned"
    /\ UNCHANGED <<entry, watch_remnants, offer_ids, utcnow, calls, arg>>
    /\ UNCHANGED runVars

NextPure == CallPriceConversion \/ CallDivide

SpecPure == InitPure /\ [][NextPure]_vars

\* ------------------------------------------------------------------------
\* SpecRecon: create_stocks / create_prices called on one caller-owned list
\* ------------------------------------------------------------------------
CatalogCodes == {"X", "Y", "Z"}

Quantity10Plus == <<">", "1", "0">>

ReconQuantities == {Quantity10Plus, <<"1">>, <<"7">>, <<"1", "2">>, <<"x">>}

ReconPrice(code) == IF code = "X" THEN Price5990 ELSE Price199

ReconRecords ==
    {[code |-> c, quantity |-> q, price |-> ReconPrice(c)] :
        c \in {"X", "Y"}, q \in ReconQuantities}

DistinctSeqs(S, n) ==
    {s \in SeqsUpTo(S, n) : \A i, j \in 1..Len(s) : i # j => s[i] # s[j]}

WarehouseId == "W"

InitRecon ==
    /\ entry \in {"seller", "market"}
    /\ watch_remnants \in SeqsUpTo(ReconRecords, MaxRecords)
    /\ offer_ids \in DistinctSeqs(CatalogCodes, MaxCatalog)
    /\ calls = <<>>
    /\ utcnow = 0
    /\ pc = "caller"
    /\ arg = <<>> /\ result = <<>>
    /\ RunIdle

\* stocks = create_stocks(watch_remnants, offer_ids): the callee works on the
\* list object it is given, so its removals show in the caller's list
CallCreateStocks ==
    /\ pc = "caller" /\ Len(calls) < MaxCalls
    /\ LET r == IF entry = "seller"
                THEN seller_create_stocks(watch_remnants, offer_ids)
                ELSE market_create_stocks(watch_remnants, offer_ids,
                                          WarehouseId, utcnow)
       IN /\ calls' = Append(calls, [fn |-> "create_stocks",
                                     before |-> offer_ids,
                                     raised |-> r.err,
                                     out |-> r.stocks])
          /\ offer_ids' = r.offer_ids
    /\ UNCHANGED <<entry, pc, watch_remnants, utcnow, arg, result>>
    /\ UNCHANGED runVars

CallCreatePrices ==
    /\ pc = "caller" /\ Len(calls) < MaxCalls
    /\ LET r == IF entry = "seller"
                THEN [prices |-> seller_create_prices(watch_remnants, offer_ids),
                      err |-> FALSE]
                ELSE market_create_prices(watch_remnants, offer_ids)
       IN calls' = Append(calls, [fn |-> "create_prices",
                                  before |-> offer_ids,
                                  raised |-> r.err,
                                  out |-> r.prices])
    /\ UNCHANGED <<entry, pc, watch_remnants, offer_ids, utcnow, arg, result>>
    /\ UNCHANGED runVars

\* the wall clock advances between two calls
Tick ==
    /\ pc = "caller" /\ utcnow < MaxClock
    /\ utcnow' = utcnow + 1
    /\ UNCHANGED <<entry, pc, watch_remnants, offer_ids, calls, arg, result>>
    /\ UNCHANGED runVars

NextRecon == CallCreateStocks \/ CallCreatePrices \/ Tick

SpecRecon == InitRecon /\ [][NextRecon]_vars

\* ------------------------------------------------------------------------
\* Spec: one run of seller.main or market.main
\* ------------------------------------------------------------------------
Price1000 == <<"1", "'", "0", "0", "0", ".", "0", "0", " ", "r", "u", "b", ".">>

InventoryRows ==
    {[code |-> c, quantity |-> q, price |-> Price1000] :
        c \in {"X", "Y"}, q \in {Quantity10Plus, <<"x">>}}

CatalogUniverse == <<"X", "Y", "Z">>

\* catalogs a marketplace may hold: runs of CatalogUniverse
RunCatalogs ==
    {SubSeq(CatalogUniverse, a, b) :
        a \in 1..Len(CatalogUniverse), b \in 0..Len(CatalogUniverse)}
    \cap SeqsUpTo(Range(CatalogUniverse), MaxCatalog)

Campaigns(e) == IF e = "seller" THEN {"OZON"} ELSE {"FBS", "DBS"}

Exceptions == {"ReadTimeout", "ConnectionError", "HTTPError"}

\* Ozon POST /v2/product/list: the page after cursor last_id (the number of
\* items already served; 0 stands for the initial "")
seller_get_product_list(cat, last_id) ==
    LET n == Min(PageLimit, Len(cat) - last_id)
    IN [items |-> [k \in 1..n |-> [offer_id |-> cat[last_id + k]]],
        total |-> Len(cat),
        last_id |-> last_id + n]

\* Yandex GET offer-mapping-entries: the page at token page (an offset; 0
\* stands for "" and, as nextPageToken, for an absent token)
market_get_product_list(cat, token) ==
    LET n == Min(PageLimit, Len(cat) - token)
    IN [offerMappingEntries |->
            [k \in 1..n |-> [offer |-> [shopSku |-> cat[token + k]]]],
        paging |-> [nextPageToken |->
            IF token + n < Len(cat) THEN token + n ELSE 0]]

\* cursor handed to the next page request
seller_next_cursor_initial(some_prod) == 0

seller_next_cursor(some_prod) == some_prod.last_id

market_next_cursor(some_prod) == some_prod.paging.nextPageToken

\* the statements of main that sit in its try block
in_try(e, step) == e = "seller" \/ step # "download_stock"

\* where control goes when a step raises
raise_target_resume(e, step) ==
    IF step = "update_stocks" THEN (IF e = "seller" THEN "create_prices"
                                    ELSE "upload_prices")
    ELSE IF in_try(e, step) THEN "except" ELSE "exit"

raise_target(e, step) == IF in_try(e, step) THEN "except" ELSE "exit"

Raise(e, step) ==
    /\ exc' = e
    /\ pc' = raise_target(entry, step)
    /\ outcome' = IF in_try(entry, step) THEN outcome ELSE "uncaught"

Request(kind, payload, next, ok) ==
    [kind |-> kind, campaign |-> campaign, payload |-> payload,
     next |-> next, ok |-> ok]

Init ==
    /\ entry \in {"seller", "market"}
    /\ inventory \in SeqsUpTo(InventoryRows, MaxRecords)
    /\ catalog \in [Campaigns(entry) -> RunCatalogs]
    /\ campaign = IF entry = "seller" THEN "OZON" ELSE "FBS"
    /\ pc = IF entry = "seller" THEN "get_offer_ids" ELSE "download_stock"
    /\ watch_remnants = <<>> /\ offer_ids = <<>>
    /\ page = 0 /\ product_list = <<>>
    /\ stocks = <<>> /\ prices = <<>> /\ todo = <<>>
    /\ requests = <<>> /\ exc = "none" /\ outcome = "running"
    /\ printed = <<>> /\ coroutines = <<>>
    /\ utcnow = 0 /\ calls = <<>> /\ arg = <<>> /\ result = <<>>

\* seller.get_offer_ids: one turn of the while loop, and the return
SellerGetOfferIds ==
    /\ entry = "seller" /\ pc = "get_offer_ids"
    /\ \/ LET some_prod == seller_get_product_list(catalog[campaign], page)
              pl == product_list \o some_prod.items
          IN /\ requests' = Append(requests,
                    Request("list", page, seller_next_cursor(some_prod), TRUE))
             /\ product_list' = pl
             /\ page' = seller_next_cursor(some_prod)
             /\ IF some_prod.total = Len(pl)
                THEN /\ offer_ids' = [k \in 1..Len(pl) |-> pl[k].offer_id]
                     /\ pc' = "download_stock"
                ELSE UNCHANGED <<offer_ids, pc>>
             /\ UNCHANGED <<exc, outcome>>
       \/ \E e \in Exceptions :
             /\ requests' = Append(requests, Request("list", page, 0, FALSE))
             /\ Raise(e, "get_offer_ids")
             /\ UNCHANGED <<product_list, page, offer_ids>>
    /\ UNCHANGED <<entry, inventory, watch_remnants, catalog, campaign, stocks,
                   prices, todo, printed, coroutines, utcnow, calls, arg, result>>

\* market.get_offer_ids: one turn of the while loop, and the return
MarketGetOfferIds ==
    /\ entry = "market" /\ pc = "get_offer_ids"
    /\ \/ LET some_prod == market_get_product_list(catalog[campaign], page)
              pl == product_list \o some_prod.offerMappingEntries
          IN /\ requests' = Append(requests,
                    Request("list", page, market_next_cursor(some_prod), TRUE))
             /\ product_list' = pl
             /\ page' = market_next_cursor(some_prod)
             /\ IF market_next_cursor(some_prod) = 0
                THEN /\ offer_ids' = [k \in 1..Len(pl) |-> pl[k].offer.shopSku]
                     /\ pc' = "create_stocks"
                ELSE UNCHANGED <<offer_ids, pc>>
             /\ UNCHANGED <<exc, outcome>>
       \/ \E e \in Exceptions :
             /\ requests' = Append(requests, Request("list", page, 0, FALSE))
             /\ Raise(e, "get_offer_ids")
             /\ UNCHANGED <<product_list, page, offer_ids>>
    /\ UNCHANGED <<entry, inventory, watch_remnants, catalog, campaign, stocks,
                   prices, todo, printed, coroutines, utcnow, calls, arg, result>>

\* download_stock: the spreadsheet rows, or a transport / parsing error
DownloadStock ==
    /\ pc = "download_stock"
    /\ \/ /\ watch_remnants' = inventory
          /\ pc' = IF entry = "seller" THEN "create_stocks" ELSE "get_offer_ids"
          /\ UNCHANGED <<exc, outcome>>
       \/ \E e \in Exceptions :
             /\ Raise(e, "download_stock")
             /\ UNCHANGED watch_remnants
    /\ UNCHANGED <<entry, inventory, catalog, campaign, page, product_list,
                   offer_ids, stocks, prices, todo, requests, printed,
                   coroutines, utcnow, calls, arg, result>>

\* seller.main: stocks = create_stocks(watch_remnants, offer_ids) and the
\* list(divide(stocks, 100)) the upload loop runs over
SellerCreateStocks ==
    /\ entry = "seller" /\ pc = "create_stocks"
    /\ LET r == seller_create_stocks(watch_remnants, offer_ids)
       IN /\ offer_ids' = r.offer_ids
          /\ IF r.err
             THEN /\ Raise("ValueError", "create_stocks")
                  /\ UNCHANGED <<stocks, todo>>
             ELSE /\ stocks' = r.stocks
                  /\ todo' = divide(r.stocks, StockBatch)
                  /\ pc' = "update_stocks"
                  /\ UNCHANGED <<exc, outcome>>
    /\ UNCHANGED <<entry, inventory, watch_remnants, catalog, campaign, page,
                   product_list, prices, requests, printed, coroutines, utcnow,
                   calls, arg, result>>

\* market.main: stocks = create_stocks(watch_remnants, offer_ids, warehouse)
\* and the list(divide(stocks, 2000)) the upload loop runs over
MarketCreateStocks ==
    /\ entry = "market" /\ pc = "create_stocks"
    /\ LET r == market_create_stocks(watch_remnants, offer_ids, campaign, utcnow)
       IN /\ offer_ids' = r.offer_ids
          /\ IF r.err
             THEN /\ Raise("ValueError", "create_stocks")
                  /\ UNCHANGED <<stocks, todo>>
             ELSE /\ stocks' = r.stocks
                  /\ todo' = divide(r.stocks, StockBatch)
                  /\ pc' = "update_stocks"
                  /\ UNCHANGED <<exc, outcome>>
    /\ UNCHANGED <<entry, inventory, watch_remnants, catalog, campaign, page,
                   product_list, prices, requests, printed, coroutines, utcnow,
                   calls, arg, result>>

\* "for some_stock in list(divide(stocks, n)): update_stocks(some_stock, ...)":
\* the loop takes the next batch and uploads it, or is exhausted
UpdateStocks ==
    /\ pc = "update_stocks"
    /\ \/ /\ todo # <<>>
          /\ requests' = Append(requests, Request("stocks", Head(todo), 0, TRUE))
          /\ todo' = Tail(todo)
          /\ UNCHANGED <<pc, exc, outcome>>
       \/ /\ todo # <<>>
          /\ \E e \in Exceptions :
                /\ requests' = Append(requests,
                                      Request("stocks", Head(todo), 0, FALSE))
                /\ Raise(e, "update_stocks")
          /\ UNCHANGED todo
       \/ /\ todo = <<>>
          /\ pc' = IF entry = "seller" THEN "create_prices" ELSE "upload_prices"
          /\ UNCHANGED <<todo, requests, exc, outcome>>
    /\ UNCHANGED <<entry, inventory, watch_remnants, catalog, campaign, page,
                   product_list, offer_ids, stocks, prices, printed, coroutines,
                   utcnow, calls, arg, result>>

\* seller.main: prices = create_prices(watch_remnants, offer_ids), with the
\* offer_ids list create_stocks has worked on, and list(divide(prices, 900))
SellerCreatePrices ==
    /\ entry = "seller" /\ pc = "create_prices"
    /\ prices' = seller_create_prices(watch_remnants, offer_ids)
    /\ todo' = divide(prices', PriceBatch)
    /\ pc' = "update_price"
    /\ UNCHANGED <<entry, inventory, watch_remnants, catalog, campaign, page,
                   product_list, offer_ids, stocks, requests, exc, outcome,
                   printed, coroutines, utcnow, calls, arg, result>>

\* "for some_price in list(divide(prices, 900)): update_price(some_price, ...)":
\* the loop takes the next batch and uploads it, or is exhausted and
\* seller.main returns
SellerUpdatePrice ==
    /\ entry = "seller" /\ pc = "update_price"
    /\ \/ /\ todo # <<>>
          /\ requests' = Append(requests, Request("prices", Head(todo), 0, TRUE))
          /\ todo' = Tail(todo)
          /\ UNCHANGED <<pc, exc, outcome>>
       \/ /\ todo # <<>>
          /\ \E e \in Exceptions :
                /\ requests' = Append(requests,
                                      Request("prices", Head(todo), 0, FALSE))
                /\ Raise(e, "update_price")
          /\ UNCHANGED todo
       \/ /\ todo = <<>>
          /\ pc' = "exit"
          /\ outcome' = "ok"
          /\ UNCHANGED <<todo, requests, exc>>
    /\ UNCHANGED <<entry, inventory, watch_remnants, catalog, campaign, page,
                   product_list, offer_ids, stocks, prices, printed, coroutines,
                   utcnow, calls, arg, result>>

\* market.main: the statement upload_prices(watch_remnants, campaign, token).
\* upload_prices is a coroutine function and the statement neither awaits
\* the coroutine object nor hands it to an event loop: the object is
\* created and dropped, its body never runs. main goes on with the DBS
\* campaign, or returns.
MarketUploadPrices ==
    /\ entry = "market" /\ pc = "upload_prices"
    /\ coroutines' = Append(coroutines, campaign)
    /\ IF campaign = "FBS"
       THEN /\ campaign' = "DBS"
            /\ pc' = "get_offer_ids"
            /\ page' = 0
            /\ product_list' = <<>>
            /\ UNCHANGED outcome
       ELSE /\ pc' = "exit"
            /\ outcome' = "ok"
            /\ UNCHANGED <<campaign, page, product_list>>
    /\ UNCHANGED <<entry, inventory, watch_remnants, catalog, offer_ids, stocks,
                   prices, todo, requests, exc, printed, utcnow, calls, arg,
                   result>>

\* text printed by the except clause an exception selects
handler_message(e) ==
    IF e = "ReadTimeout" THEN "timeout"
    ELSE IF e = "ConnectionError" THEN "connection error"
    ELSE "ERROR_2"

\* the except clauses of main: print, then fall off the end of main
Handler ==
    /\ pc = "except"
    /\ printed' = Append(printed, handler_message(exc))
    /\ pc' = "exit"
    /\ outcome' = "handled"
    /\ UNCHANGED <<entry, inventory, watch_remnants, catalog, campaign, page,
                   product_list, offer_ids, stocks, prices, todo, requests, exc,
                   coroutines, utcnow, calls, arg, result>>

Next ==
    \/ SellerGetOfferIds
    \/ MarketGetOfferIds
    \/ DownloadStock
    \/ SellerCreateStocks
    \/ MarketCreateStocks
    \/ UpdateStocks
    \/ SellerCreatePrices
    \/ SellerUpdatePrice
    \/ MarketUploadPrices
    \/ Handler

Spec == Init /\ [][Next]_vars

\* the interpreter keeps running the program until main returns or dies
FairSpec == Spec /\ WF_vars(Next)

\* ------------------------------------------------------------------------
\* Properties of the reconciliation (checked under SpecRecon)
\* ------------------------------------------------------------------------
EntryId(e) == IF entry = "seller" THEN e.offer_id ELSE e.sku

EntryCount(e) == IF entry = "seller" THEN e.stock ELSE e.items[1].count

\* the documented quantity mapping, tabulated for the quantities of
\* ReconQuantities; -1 marks a quantity that is not a number
QuantityTable(q) ==
    CASE q = <<">", "1", "0">> -> 100
      [] q = <<"1">> -> 0
      [] q = <<"7">> -> 7
      [] q = <<"1", "2">> -> 12
      [] OTHER -> -1

StockCalls == {c \in 1..Len(calls) : calls[c].fn = "create_stocks"}

Carriers(id) == {i \in 1..Len(watch_remnants) : watch_remnants[i].code = id}

\* records that find their code in a list of distinct ids: the first record
\* of each code the list holds
Matched(ids) ==
    {i \in 1..Len(watch_remnants) :
        /\ watch_remnants[i].code \in Range(ids)
        /\ \A j \in 1..(i - 1) : watch_remnants[j].code # watch_remnants[i].code}

\* the k-th matched record, in spreadsheet order
NthMatched(ids, k) ==
    CHOOSE i \in Matched(ids) : Cardinality({j \in Matched(ids) : j <= i}) = k

\* C1: the stock list returned by create_stocks holds every id of the
\* (duplicate-free) catalog exactly once, with the mapped count of a record
\* carrying that code if there is one and 0 otherwise, and holds no id that
\* is not in the catalog - also when a code occurs in several records.
C1_StockListCoversCatalog ==
    \A c \in StockCalls :
        LET out == calls[c].out
            cat == calls[c].before
        IN ~calls[c].raised =>
            /\ \A id \in Range(cat) :
                 Cardinality({k \in 1..Len(out) : EntryId(out[k]) = id}) = 1
            /\ \A k \in 1..Len(out) :
                 /\ EntryId(out[k]) \in Range(cat)
                 /\ IF Carriers(EntryId(out[k])) = {}
                    THEN EntryCount(out[k]) = 0
                    ELSE \E i \in Carriers(EntryId(out[k])) :
                           EntryCount(out[k]) =
                               QuantityTable(watch_remnants[i].quantity)

\* a call returned for records that repeat a catalog code while another
\* catalog id has no record
C1_Witness ==
    /\ Len(calls) >= 1
    /\ calls[1].fn = "create_stocks" /\ ~calls[1].raised
    /\ \E i, j \in 1..Len(watch_remnants) :
         /\ i < j
         /\ watch_remnants[i].code = watch_remnants[j].code
         /\ watch_remnants[i].code \in Range(calls[1].before)
    /\ \E id \in Range(calls[1].before) : Carriers(id) = {}

\* C7: create_stocks emits, for every matched record and in record order,
\* the count the quantity mapping gives (">10" -> 100, "1" -> 0, another
\* number -> that number), and raises instead of returning exactly when a
\* matched record has a quantity that is not a number.
C7_QuantityMapping ==
    \A c \in StockCalls :
        LET out == calls[c].out
            m == Matched(calls[c].before)
        IN /\ calls[c].raised <=>
                \E i \in m : QuantityTable(watch_remnants[i].quantity) = -1
           /\ calls[c].raised => out = <<>>
           /\ ~calls[c].raised =>
                /\ Len(out) >= Cardinality(m)
                /\ \A k \in 1..Cardinality(m) :
                     LET w == watch_remnants[NthMatched(calls[c].before, k)]
                     IN /\ EntryId(out[k]) = w.code
                        /\ EntryCount(out[k]) = QuantityTable(w.quantity)

\* a call that matched a ">10" record and a "1" record and returned
C7_Witness ==
    /\ Len(calls) >= 1
    /\ calls[1].fn = "create_stocks" /\ ~calls[1].raised
    /\ \E i, j \in Matched(calls[1].before) :
         /\ watch_remnants[i].quantity = <<">", "1", "0">>
         /\ watch_remnants[j].quantity = <<"1">>

\* C10: two successive calls of the same reconciliation function with the
\* same records and the same offer-id list return the same output.
C10_TwiceSameOutput ==
    (Len(calls) >= 2 /\ calls[1].fn = calls[2].fn) =>
        /\ calls[1].raised = calls[2].raised
        /\ calls[1].out = calls[2].out

\* C11: create_stocks works on a copy of the offer-id list: when a call has
\* returned (or raised) the caller's list holds the ids it held before, in
\* the same order, so that a create_prices call made afterwards with that
\* list is given every catalog id.
C11_CallerListUnchanged ==
    \A c \in 1..Len(calls) :
        calls[c].fn = "create_stocks" =>
            /\ c = Len(calls) => offer_ids = calls[c].before
            /\ c < Len(calls) => calls[c + 1].before = calls[c].before

\* ------------------------------------------------------------------------
\* Properties of the pure helpers (checked under SpecPure)
\* ------------------------------------------------------------------------
IsDigit(c) == c \in Digits

\* length of the part of s before its first "."
PrefixLen(s) ==
    IF \E i \in 1..Len(s) : s[i] = "."
    THEN (CHOOSE i \in 1..Len(s) :
             s[i] = "." /\ \A j \in 1..(i - 1) : s[j] # ".") - 1
    ELSE Len(s)

\* C9: price_conversion returns the digits, in order, of the part of the
\* string before its first "." (of the whole string if it has none), hence
\* the empty string when that part has no digit; "5'990.00 rub." gives
\* "5990", "199.99" gives "199" and "abc" gives "".
C9_PriceConversion ==
    (pc = "returned" /\ arg.fn = "price_conversion") =>
        /\ result = SelectSeq(SubSeq(arg.price, 1, PrefixLen(arg.price)), IsDigit)
        /\ arg.price = Price5990 => result = <<"5", "9", "9", "0">>
        /\ arg.price = Price199 => result = <<"1", "9", "9">>
        /\ arg.price = PriceAbc => result = <<>>

\* a price with digits on both sides of its first "." and a separator
C9_Witness ==
    /\ pc = "returned" /\ arg.fn = "price_conversion"
    /\ arg.price = Price5990

\* C8: for n >= 1 divide yields chunks of at most n items whose
\* concatenation is the list; every chunk but the last has exactly n items,
\* no chunk is empty, the empty list yields nothing, and 2500 items with
\* n = 1000 yield chunks of 1000, 1000 and 500 items.
C8_Divide ==
    (pc = "returned" /\ arg.fn = "divide") =>
        /\ \A k \in 1..Len(result) :
             /\ Len(result[k]) <= arg.n
             /\ Len(result[k]) >= 1
             /\ k < Len(result) => Len(result[k]) = arg.n
        /\ Flatten(result) = arg.lst
        /\ arg.lst = <<>> => result = <<>>
        /\ arg.lst = List2500 =>
             [k \in 1..Len(result) |-> Len(result[k])] = <<1000, 1000, 500>>

\* a list that does not divide evenly: a short last chunk after full ones
C8_Witness ==
    /\ pc = "returned" /\ arg.fn = "divide"
    /\ Len(result) >= 2
    /\ Len(result[Len(result)]) < arg.n

\* ------------------------------------------------------------------------
\* Properties of a run (checked under Spec and FairSpec)
\* ------------------------------------------------------------------------
\* requests of one kind made for campaign c, in order
RequestsOf(kind, c) ==
    SelectSeq(requests, LAMBDA r : r.kind = kind /\ r.campaign = c)

\* entries of the batches of one kind the marketplace accepted for c
RECURSIVE EntriesOf(_)
EntriesOf(reqs) ==
    IF reqs = <<>> THEN <<>>
    ELSE (IF Head(reqs).ok THEN Head(reqs).payload ELSE <<>>)
         \o EntriesOf(Tail(reqs))

Uploaded(kind, c) == EntriesOf(RequestsOf(kind, c))

\* codes of the records whose code is in the list ids, in record order
CodesIn(ids) ==
    LET hit == SelectSeq(watch_remnants, LAMBDA w : w.code \in Range(ids))
    IN [k \in 1..Len(hit) |-> hit[k].code]

EndedWell == pc = "exit" /\ outcome = "ok"

\* C2: a run of seller.main that ends without error has uploaded a stock
\* entry for every catalog id and one price entry per record whose code is
\* in the fetched catalog; catalog [X, Y] with the single record
\* {X, ">10", "1'000.00 rub."} uploads stocks X=100, Y=0 and prices
\* [X -> "1000"].
C2_SellerUploadsPrices ==
    (entry = "seller" /\ EndedWell) =>
        LET st == Uploaded("stocks", "OZON")
            pr == Uploaded("prices", "OZON")
        IN /\ Range(catalog["OZON"]) \subseteq {st[k].offer_id : k \in 1..Len(st)}
           /\ [k \in 1..Len(pr) |-> pr[k].offer_id] = CodesIn(catalog["OZON"])
           /\ ( /\ catalog["OZON"] = <<"X", "Y">>
                /\ watch_remnants = <<[code |-> "X", quantity |-> Quantity10Plus,
                                       price |-> Price1000]>> )
              => /\ st = <<[offer_id |-> "X", stock |-> 100],
                           [offer_id |-> "Y", stock |-> 0]>>
                 /\ Len(pr) = 1
                 /\ pr[1].offer_id = "X"
                 /\ pr[1].price = <<"1", "0", "0", "0">>

\* market.main is done with campaign c
CampaignDone(c) ==
    \/ EndedWell
    \/ c = "FBS" /\ campaign = "DBS"

\* position in the request log of the last request of a kind for c (0: none)
LastOf(kind, c) ==
    LET at == {k \in 1..Len(requests) :
                 requests[k].kind = kind /\ requests[k].campaign = c}
    IN IF at = {} THEN 0 ELSE CHOOSE k \in at : \A j \in at : j <= k

FirstOf(kind, c) ==
    LET at == {k \in 1..Len(requests) :
                 requests[k].kind = kind /\ requests[k].campaign = c}
    IN IF at = {} THEN Len(requests) + 1 ELSE CHOOSE k \in at : \A j \in at : k <= j

\* C3: in an error-free run of market.main each campaign, FBS before DBS,
\* goes through catalog fetch, stock upload and then price upload, and the
\* price batches of a campaign - one entry per record whose code is in its
\* catalog - have been sent by the time the campaign is done.
C3_MarketPricesUploaded ==
    (entry = "market" /\ exc = "none") =>
        \A c \in {"FBS", "DBS"} :
            CampaignDone(c) =>
                LET pr == Uploaded("prices", c)
                IN /\ [k \in 1..Len(pr) |-> pr[k].id] = CodesIn(catalog[c])
                   /\ LastOf("list", c) < FirstOf("stocks", c)
                   /\ LastOf("stocks", c) < FirstOf("prices", c)

RequestFailed == \E k \in 1..Len(requests) : ~requests[k].ok

\* C4: once a catalog-fetch or upload request has failed the run makes no
\* further request, and what was sent before stays in the log as it was.
C4_NoRequestAfterFailure ==
    [][ /\ RequestFailed => requests' = requests
        /\ SubSeq(requests', 1, Len(requests)) = requests ]_vars

\* market.main ended after an accepted FBS stock batch was followed by a
\* failed one, leaving the DBS campaign and its catalog untouched
C4_Witness ==
    /\ entry = "market" /\ pc = "exit" /\ campaign = "FBS"
    /\ catalog["DBS"] # <<>>
    /\ \E j, k \in 1..Len(requests) :
         /\ j < k
         /\ requests[j].kind = "stocks" /\ requests[j].ok
         /\ requests[k].kind = "stocks" /\ ~requests[k].ok

\* C5: a failure of any step of either entry point is caught by the
\* handler of main, which prints one message and lets main return; none
\* leaves main uncaught.
C5_FailuresReachHandler ==
    /\ outcome # "uncaught"
    /\ (pc = "exit" /\ exc # "none") => (outcome = "handled" /\ Len(printed) = 1)

\* get_offer_ids has just returned to main
Returned ==
    \/ entry = "seller" /\ pc = "download_stock"
    \/ entry = "market" /\ pc = "create_stocks"

\* pages a catalog of n items is served in
PagesOf(n) == IF n = 0 THEN 1 ELSE (n + PageLimit - 1) \div PageLimit

C6_Pages ==
    Returned =>
        LET l == RequestsOf("list", campaign)
        IN /\ offer_ids = catalog[campaign]
           /\ Len(l) = PagesOf(Len(catalog[campaign]))
           /\ \A k \in 1..Len(l) :
                l[k].payload = IF k = 1 THEN 0 ELSE l[k - 1].next

\* C6: get_offer_ids asks for page after page, each with the cursor the
\* page before returned, stops at the page that ends the catalog, returns
\* the offer ids of all pages in order, and always comes to an end.
C6_GetOfferIds ==
    /\ []C6_Pages
    /\ (pc = "get_offer_ids") ~> (pc # "get_offer_ids")

\* a catalog fetched in more than one page
C6_Witness ==
    /\ Returned
    /\ Len(RequestsOf("list", campaign)) >= 2
    /\ Len(offer_ids) >= 2

====
